---- MODULE Spec2Model ----
(***************************************************************************)
(* IQ-MOS (src/app.py): a Streamlit script that is re-run from top to      *)
(* bottom on every widget change.  The state is the selected mode, the     *)
(* values of the sliders the selected mode draws, and what the run handed  *)
(* to the page (st.write / st.success / st.pyplot).                        *)
(*                                                                         *)
(* Numbers.  The program computes in floating point.  Here every real      *)
(* quantity is an exact rational [num, den] in lowest terms, so  =  is     *)
(* equality of values.  np.exp and np.sqrt are irrational: they are        *)
(* modelled by an enclosure [lo, hi] that contains the real value.         *)
(* Units: voltages in V, lengths in nm (the caller's "* 1e-9" is folded    *)
(* into the constants that divide by a length), mobilities in cm^2/Vs      *)
(* (the caller's "* 1e-4" is a fixed factor of the result), fields in V/m, *)
(* dose in krad.                                                           *)
(***************************************************************************)
EXTENDS Integers, Sequences, FiniteSets

VARIABLES mode, sliders, output, snap, call, ret

vars == <<mode, sliders, output, snap, call, ret>>

(***************************************************************************)
(* Bounds of the model.                                                    *)
(***************************************************************************)
\* every slider takes its two ends, its default and GridSteps - 1 evenly
\* spaced positions between the ends
GridSteps == 2
\* direct calls of mobility_degradation use fields 0, 0.5e6, ..., MaxField * 0.5e6 V/m
MaxField == 6
\* terms of the series that encloses np.exp
ExpTerms == 24

(***************************************************************************)
(* Exact arithmetic on rationals (what +, -, *, / compute, without the     *)
(* rounding).                                                              *)
(***************************************************************************)
Abs(x) == IF x < 0 THEN -x ELSE x

Sign(x) == IF x < 0 THEN -1 ELSE IF x = 0 THEN 0 ELSE 1

RECURSIVE GCD(_, _)
GCD(a, b) == IF b = 0 THEN a ELSE GCD(b, a % b)

\* n/d in lowest terms with a positive denominator (d # 0)
Rat(n, d) ==
    LET g == GCD(Abs(n), Abs(d))
    IN  [num |-> Sign(d) * (n \div g), den |-> Abs(d) \div g]

RInt(n) == [num |-> n, den |-> 1]

RNeg(a) == [num |-> -a.num, den |-> a.den]

RAdd(a, b) ==
    LET g == GCD(a.den, b.den)
    IN  Rat(a.num * (b.den \div g) + b.num * (a.den \div g), (a.den \div g) * b.den)

RSub(a, b) == RAdd(a, RNeg(b))

RMul(a, b) ==
    LET g1 == GCD(Abs(a.num), b.den)
        g2 == GCD(Abs(b.num), a.den)
    IN  Rat((a.num \div g1) * (b.num \div g2), (a.den \div g2) * (b.den \div g1))

\* b # 0
RDiv(a, b) == RMul(a, Rat(b.den, b.num))

\* n1/d1 < n2/d2 for n1, n2 >= 0 and d1, d2 > 0, by continued fractions
RECURSIVE FracLess(_, _, _, _)
FracLess(n1, d1, n2, d2) ==
    LET q1 == n1 \div d1
        q2 == n2 \div d2
        r1 == n1 % d1
        r2 == n2 % d2
    IN  IF q1 # q2 THEN q1 < q2
        ELSE IF r2 = 0 THEN FALSE
        ELSE IF r1 = 0 THEN TRUE
        ELSE FracLess(d2, r2, d1, r1)

RLess(a, b) ==
    IF a.num < 0 /\ b.num >= 0 THEN TRUE
    ELSE IF a.num >= 0 /\ b.num < 0 THEN FALSE
    ELSE IF a.num >= 0 THEN FracLess(a.num, a.den, b.num, b.den)
    ELSE FracLess(-b.num, b.den, -a.num, a.den)

RLeq(a, b) == ~RLess(b, a)

(***************************************************************************)
(* A drain current is the product k * (volts squared); the two factors are *)
(* kept apart, and compared as the product they stand for.                 *)
(***************************************************************************)
Product(c, v) == [c |-> c, v |-> v]

PSign(p) == Sign(p.c.num) * Sign(p.v.num)

\* |p| < |q| for p, q # 0:  |p.c| * |p.v| < |q.c| * |q.v|
PAbsLess(p, q) ==
    RLess(RDiv([p.c EXCEPT !.num = Abs(@)], [q.c EXCEPT !.num = Abs(@)]),
          RDiv([q.v EXCEPT !.num = Abs(@)], [p.v EXCEPT !.num = Abs(@)]))

PLess(p, q) ==
    IF PSign(p) # PSign(q) THEN PSign(p) < PSign(q)
    ELSE IF PSign(p) = 0 THEN FALSE
    ELSE IF PSign(p) > 0 THEN PAbsLess(p, q)
    ELSE PAbsLess(q, p)

PLeq(p, q) == ~PLess(q, p)

PEq(p, q) == ~PLess(p, q) /\ ~PLess(q, p)

(***************************************************************************)
(* The physics functions, src/app.py lines 9-28.                           *)
(***************************************************************************)
\* what a run ends with when a float is divided by 0.0
ZeroDivisionError == [raised |-> "ZeroDivisionError"]

Raised(r) == "raised" \in DOMAIN r

\* line 10: Cox = 3.45e-11 / tox, tox in nm here: 3.45e-11 / (tox * 1e-9)
Cox(tox) == RDiv(Rat(345, 10000), tox)

\* line 15: k * ((Vg - Vth) * Vd - 0.5 * Vd**2)
Triode(k, Vg, Vd, Vth) ==
    Product(k, RSub(RMul(RSub(Vg, Vth), Vd), RMul(Rat(1, 2), RMul(Vd, Vd))))

\* a plausible slip in line 17: the factor 0.5 left out
SaturationNoHalf(k, Vg, Vth) ==
    Product(k, RMul(RSub(Vg, Vth), RSub(Vg, Vth)))

\* line 17: 0.5 * k * (Vg - Vth)**2
Saturation(k, Vg, Vth) ==
    Product(RMul(Rat(1, 2), k), RMul(RSub(Vg, Vth), RSub(Vg, Vth)))

\* line 13: return 0
Zero == Product(RInt(0), RInt(0))

\* a plausible slip in lines 12-13: the cutoff test left out
mosfet_iv_no_cutoff(Vg, Vd, tox, mobility, Vth) ==
    IF tox.num = 0 THEN ZeroDivisionError
    ELSE LET k == RMul(mobility, Cox(tox))
         IN  IF RLess(Vd, RSub(Vg, Vth)) THEN Triode(k, Vg, Vd, Vth)
             ELSE Saturation(k, Vg, Vth)

\* a plausible slip in line 14: the curve clamped at its start, Vd <= 0 giving 0
mosfet_iv_clamped(Vg, Vd, tox, mobility, Vth) ==
    IF tox.num = 0 THEN ZeroDivisionError
    ELSE LET k == RMul(mobility, Cox(tox))
         IN  IF RLess(Vg, Vth) \/ Vd.num <= 0 THEN Zero
             ELSE IF RLess(Vd, RSub(Vg, Vth)) THEN Triode(k, Vg, Vd, Vth)
             ELSE Saturation(k, Vg, Vth)

\* lines 9-17
mosfet_iv(Vg, Vd, tox, mobility, Vth) ==
    IF tox.num = 0 THEN ZeroDivisionError
    ELSE LET k == RMul(mobility, Cox(tox))
         IN  IF RLess(Vg, Vth) THEN Zero
             ELSE IF RLess(Vd, RSub(Vg, Vth)) THEN Triode(k, Vg, Vd, Vth)
             ELSE Saturation(k, Vg, Vth)

(***************************************************************************)
(* np.exp(-x) for a rational x >= 0, enclosed by the partial sums of its   *)
(* alternating series in fixed point (units of 1 / ExpScale).  Every term  *)
(* is carried as a pair rounded down / rounded up; past term ExpTerms      *)
(* (>= x, so the terms decrease) the rest of the series is at most the     *)
(* last term.                                                              *)
(***************************************************************************)
ExpScale == 100000

RECURSIVE ExpSeries(_, _, _, _, _, _, _)
ExpSeries(p, q, n, tlo, thi, slo, shi) ==
    IF n = ExpTerms THEN [lo |-> Rat(slo - thi, ExpScale), hi |-> Rat(shi + thi, ExpScale)]
    ELSE LET d   == q * (n + 1)
             nlo == (tlo * p) \div d
             nhi == (thi * p + d - 1) \div d
         IN  IF n % 2 = 0
             THEN ExpSeries(p, q, n + 1, nlo, nhi, slo - nhi, shi - nlo)
             ELSE ExpSeries(p, q, n + 1, nlo, nhi, slo + nlo, shi + nhi)

ExpNeg(x) == ExpSeries(x.num, x.den, 0, ExpScale, ExpScale, ExpScale, ExpScale)

\* a plausible slip in line 20: the exponential term subtracted
dg_threshold_minus(thickness, tox) ==
    LET e == ExpNeg(RDiv(thickness, RInt(5)))
        t == RMul(tox, Rat(1, 100))
    IN  [lo |-> RAdd(RSub(Rat(2, 10), RMul(Rat(1, 2), e.hi)), t),
         hi |-> RAdd(RSub(Rat(2, 10), RMul(Rat(1, 2), e.lo)), t)]

\* lines 19-20: 0.2 + 0.5 * np.exp(-thickness / 5e-9) + (tox * 1e9) * 0.01,
\* thickness and tox in nm here; the result is an enclosure of Vth
dg_threshold(thickness, tox) ==
    LET e == ExpNeg(RDiv(thickness, RInt(5)))
        t == RMul(tox, Rat(1, 100))
    IN  [lo |-> RAdd(RAdd(Rat(2, 10), RMul(Rat(1, 2), e.lo)), t),
         hi |-> RAdd(RAdd(Rat(2, 10), RMul(Rat(1, 2), e.hi)), t)]

(***************************************************************************)
(* np.sqrt of an integer x >= 0, enclosed between two neighbouring         *)
(* multiples of 1 / SqrtScale.                                             *)
(***************************************************************************)
SqrtScale == 100

\* the r in lo .. hi - 1 with r*r <= x < (r+1)*(r+1), given lo*lo <= x < hi*hi
RECURSIVE ISqrt(_, _, _)
ISqrt(x, lo, hi) ==
    IF hi - lo <= 1 THEN lo
    ELSE LET mid == (lo + hi) \div 2
         IN  IF mid * mid <= x THEN ISqrt(x, mid, hi) ELSE ISqrt(x, lo, mid)

Sqrt(x) ==
    LET y == x * SqrtScale * SqrtScale
        r == ISqrt(y, 0, 46340)
    IN  [lo |-> Rat(r, SqrtScale), hi |-> Rat(IF r * r = y THEN r ELSE r + 1, SqrtScale)]

\* lines 22-25; d and Eg are enclosures.  With d = 0 numpy's division gives
\* inf (and a warning), not an exception.
cnt_bandgap(n, m) ==
    LET s  == Sqrt(n * n + m * m + n * m)
        d  == [lo |-> RMul(Rat(783, 10000), s.lo), hi |-> RMul(Rat(783, 10000), s.hi)]
        Eg == IF d.lo.num = 0 THEN [inf |-> TRUE]
              ELSE [lo |-> RDiv(Rat(82, 100), d.hi), hi |-> RDiv(Rat(82, 100), d.lo)]
    IN  [d |-> d, Eg |-> Eg]

\* a plausible slip in line 28: the field divided by 1e5
mobility_degradation_1e5(Efield, mu0) ==
    RDiv(mu0, RAdd(RInt(1), RDiv(Efield, RInt(100000))))

\* lines 27-28: mu0 / (1 + (Efield / 1e6)), for Efield # -1e6
mobility_degradation(Efield, mu0) ==
    RDiv(mu0, RAdd(RInt(1), RDiv(Efield, RInt(1000000))))

\* a plausible slip: np.linspace(..., endpoint=False), the step taken over num
linspace_open(start, stop, num) ==
    [i \in 1..num |-> RAdd(start, RMul(RInt(i - 1), RDiv(RSub(stop, start), RInt(num))))]

\* np.linspace(start, stop, num): start + i * (stop - start) / (num - 1), i = 0 .. num - 1
linspace(start, stop, num) ==
    [i \in 1..num |-> RAdd(start, RMul(RInt(i - 1), RDiv(RSub(stop, start), RInt(num - 1))))]

(***************************************************************************)
(* The page: the mode selectbox and the sliders, lines 37-135.  A slider   *)
(* is [min, max, value, per]: its ends and its default in steps, per steps *)
(* to the unit (st.slider steps a float slider by 0.01, an int slider      *)
(* by 1).                                                                  *)
(***************************************************************************)
MosfetIV == "MOSFET I-V"

DoubleGate == "Double Gate MOS Threshold"

CntExplorer == "CNT Bandgap Explorer"

MobilityDeg == "Mobility Degradation"

RadiationTID == "Radiation TID Threshold Shift"

\* lines 38-43, in the order of the selectbox
Modes == <<MosfetIV, DoubleGate, CntExplorer, MobilityDeg, RadiationTID>>

Slider(min, max, value, per) == [min |-> min, max |-> max, value |-> value, per |-> per]

\* a plausible slip in line 53: the oxide slider starting at 0.0
MosfetSlidersToxFromZero ==
    [Vg       |-> Slider(0, 200, 100, 100),
     tox      |-> Slider(0, 500, 150, 100),
     mobility |-> Slider(5000, 50000, 20000, 100),
     Vth      |-> Slider(10, 100, 40, 100)]

\* lines 52-55
MosfetSliders ==
    [Vg       |-> Slider(0, 200, 100, 100),
     tox      |-> Slider(50, 500, 150, 100),
     mobility |-> Slider(5000, 50000, 20000, 100),
     Vth      |-> Slider(10, 100, 40, 100)]

\* lines 74-75
DoubleGateSliders ==
    [thickness |-> Slider(200, 2000, 1000, 100),
     tox       |-> Slider(50, 500, 100, 100)]

\* lines 87-88
CntSliders ==
    [n |-> Slider(1, 30, 10, 1),
     m |-> Slider(1, 30, 10, 1)]

\* line 107
MobilitySliders == [mu0 |-> Slider(1000, 50000, 30000, 100)]

\* line 125
RadiationSliders == [dose |-> Slider(0, 50000, 5000, 100)]

Sliders(m) ==
    CASE m = MosfetIV     -> MosfetSliders
      [] m = DoubleGate   -> DoubleGateSliders
      [] m = CntExplorer  -> CntSliders
      [] m = MobilityDeg  -> MobilitySliders
      [] m = RadiationTID -> RadiationSliders

\* the positions of a slider the model moves it to
Positions(w) ==
    {w.min + (i * (w.max - w.min)) \div GridSteps : i \in 0..GridSteps} \cup {w.value}

\* what st.slider returns on the first run of a mode: its value argument
Defaults(m) == [w \in DOMAIN Sliders(m) |-> Sliders(m)[w].value]

\* what st.slider returns: a float for a float slider, an int for an int slider
Value(m, s, w) == Rat(s[w], Sliders(m)[w].per)

(***************************************************************************)
(* One run of the script for each mode: what it hands to the page.         *)
(***************************************************************************)
\* line 57 (and 108): the number of samples of a sweep
NumSamples == 200

\* lines 49-65
MosfetMode(s) ==
    LET Vd_values == linspace(RInt(0), Rat(15, 10), NumSamples)
        Id_values == [i \in 1..NumSamples |->
                        mosfet_iv(Value(MosfetIV, s, "Vg"), Vd_values[i],
                                  Value(MosfetIV, s, "tox"),
                                  Value(MosfetIV, s, "mobility"),
                                  Value(MosfetIV, s, "Vth"))]
    IN  IF Raised(Id_values[1])
        THEN [mode |-> MosfetIV, error |-> Id_values[1].raised]
        ELSE [mode |-> MosfetIV, x |-> Vd_values, y |-> Id_values]

\* lines 71-78
DoubleGateMode(s) ==
    [mode |-> DoubleGate,
     Vth  |-> dg_threshold(Value(DoubleGate, s, "thickness"), Value(DoubleGate, s, "tox"))]

\* a plausible slip in line 95: the indices added
MetallicSum(n, m) == Abs((n + m) % 3) = 0

\* line 95: abs((n - m) % 3) == 0; Python's % of a negative by 3 is in 0..2, as here
Metallic(n, m) == Abs((n - m) % 3) = 0

\* lines 84-98
CntMode(s) ==
    LET r == cnt_bandgap(s.n, s.m)
    IN  [mode |-> CntExplorer, d |-> r.d, Eg |-> r.Eg,
         class |-> IF Metallic(s.n, s.m) THEN "metallic" ELSE "semiconducting"]

\* lines 104-116
MobilityMode(s) ==
    LET E  == linspace(RInt(10000), RInt(10000000), NumSamples)
        mu == [i \in 1..NumSamples |-> mobility_degradation(E[i], Value(MobilityDeg, s, "mu0"))]
    IN  [mode |-> MobilityDeg, x |-> E, y |-> mu]

\* a plausible slip in line 126: 0.01 for 0.001
RadiationModeCenti(s) ==
    LET dose  == Value(RadiationTID, s, "dose")
        shift == RMul(Rat(1, 100), dose)
    IN  [mode |-> RadiationTID, shift |-> shift,
         x |-> <<RInt(0), dose>>, y |-> <<RInt(0), shift>>]

\* a plausible slip in lines 125-126: the shift kept in a module-level total
\* that outlives the run (st.session_state, a cached global)
RadiationModeAccumulating(s) ==
    LET dose  == Value(RadiationTID, s, "dose")
        prev  == IF output.mode = RadiationTID THEN output.shift ELSE RInt(0)
        shift == RAdd(prev, RMul(Rat(1, 1000), dose))
    IN  [mode |-> RadiationTID, shift |-> shift,
         x |-> <<RInt(0), dose>>, y |-> <<RInt(0), shift>>]

\* lines 122-135
RadiationMode(s) ==
    LET dose  == Value(RadiationTID, s, "dose")
        shift == RMul(Rat(1, 1000), dose)
    IN  [mode |-> RadiationTID, shift |-> shift,
         x |-> <<RInt(0), dose>>, y |-> <<RInt(0), shift>>]

\* The two sweeps, tabulated over the slider positions of the model: the
\* runs of a sweep mode, each evaluated once.
MosfetRuns ==
    {<<s, MosfetMode(s)>> : s \in [Vg       : Positions(MosfetSliders.Vg),
                                   tox      : Positions(MosfetSliders.tox),
                                   mobility : Positions(MosfetSliders.mobility),
                                   Vth      : Positions(MosfetSliders.Vth)]}

MobilityRuns ==
    {<<s, MobilityMode(s)>> : s \in [mu0 : Positions(MobilitySliders.mu0)]}

RunOf(runs, s) == (CHOOSE r \in runs : r[1] = s)[2]

\* lines 49, 71, 84, 104, 122: the if / elif chain on the mode
Script(m, s) ==
    CASE m = MosfetIV     -> RunOf(MosfetRuns, s)
      [] m = DoubleGate   -> DoubleGateMode(s)
      [] m = CntExplorer  -> CntMode(s)
      [] m = MobilityDeg  -> RunOf(MobilityRuns, s)
      [] m = RadiationTID -> RadiationMode(s)

(***************************************************************************)
(* The page as a state machine: every change of a widget re-runs the       *)
(* script.                                                                 *)
(***************************************************************************)
NoSnap == [mode |-> "none"]

NoCall == [fn |-> "none"]

\* an observer's record of one earlier run; away: another run has happened since
Away(s) == IF s = NoSnap THEN s ELSE [s EXCEPT !.away = TRUE]

Init ==
    /\ mode = Modes[1]
    /\ sliders = Defaults(Modes[1])
    /\ output = Script(Modes[1], Defaults(Modes[1]))
    /\ snap = NoSnap
    /\ call = NoCall
    /\ ret = "none"

\* the user picks another mode: its sliders are drawn for the first time
SelectMode ==
    \E i \in DOMAIN Modes :
        /\ Modes[i] # mode
        /\ mode' = Modes[i]
        /\ sliders' = Defaults(Modes[i])
        /\ output' = Script(Modes[i], Defaults(Modes[i]))
        /\ snap' = Away(snap)
        /\ UNCHANGED <<call, ret>>

\* the user moves one slider of the selected mode
MoveSlider ==
    \E w \in DOMAIN sliders :
        \E p \in Positions(Sliders(mode)[w]) \ {sliders[w]} :
            /\ sliders' = [sliders EXCEPT ![w] = p]
            /\ output' = Script(mode, [sliders EXCEPT ![w] = p])
            /\ snap' = Away(snap)
            /\ UNCHANGED <<mode, call, ret>>

Next == SelectMode \/ MoveSlider

Spec == Init /\ [][Next]_vars

(***************************************************************************)
(* The page with an observer that keeps one earlier run, to compare a      *)
(* later run of the same mode and slider values with it.  The observer     *)
(* (snap, Away, Corner, Remember) is not part of the program.              *)
(***************************************************************************)
\* the settings whose runs the observer keeps: every slider of the mode at its
\* minimum, at its default, or at its maximum
Corner(m, end) == [w \in DOMAIN Sliders(m) |-> Sliders(m)[w][end]]

Remember ==
    /\ snap = NoSnap
    /\ \E end \in {"min", "value", "max"} : sliders = Corner(mode, end)
    /\ snap' = [mode |-> mode, sliders |-> sliders, output |-> output, away |-> FALSE]
    /\ UNCHANGED <<mode, sliders, output, call, ret>>

NextHist == SelectMode \/ MoveSlider \/ Remember

SpecHist == Init /\ [][NextHist]_vars

(***************************************************************************)
(* The physics functions called directly, on arguments the page does not   *)
(* restrict: negative drain voltages, a zero mobility, a zero oxide        *)
(* thickness, a zero field.  The functions keep nothing between calls, so  *)
(* a behaviour is one call.                                                *)
(***************************************************************************)
Values(w) == {Rat(p, w.per) : p \in Positions(w)}

VgInputs == Values(MosfetSliders.Vg)

VthInputs == Values(MosfetSliders.Vth)

\* every Vg - Vth (the boundary of each pair, and negative voltages), and the
\* two ends of the sweep
VdInputs == {RSub(g, h) : g \in VgInputs, h \in VthInputs} \cup {RInt(0), Rat(15, 10)}

ToxInputs == Values(MosfetSliders.tox) \cup {RInt(0)}

MobilityInputs == Values(MosfetSliders.mobility) \cup {RInt(0)}

ThicknessInputs == Values(DoubleGateSliders.thickness)

DgToxInputs == Values(DoubleGateSliders.tox)

EfieldInputs == {RInt(j * 500000) : j \in 0..MaxField}

Mu0Inputs == Values(MobilitySliders.mu0) \cup {RInt(0)}

CallMosfetIV ==
    \E Vg \in VgInputs, Vd \in VdInputs, tox \in ToxInputs,
       mobility \in MobilityInputs, Vth \in VthInputs :
        /\ call = NoCall
        /\ call' = [fn |-> "mosfet_iv", Vg |-> Vg, Vd |-> Vd, tox |-> tox,
                    mobility |-> mobility, Vth |-> Vth]
        /\ ret' = mosfet_iv(Vg, Vd, tox, mobility, Vth)
        /\ UNCHANGED <<mode, sliders, output, snap>>

CallDgThreshold ==
    \E thickness \in ThicknessInputs, tox \in DgToxInputs :
        /\ call = NoCall
        /\ call' = [fn |-> "dg_threshold", thickness |-> thickness, tox |-> tox]
        /\ ret' = dg_threshold(thickness, tox)
        /\ UNCHANGED <<mode, sliders, output, snap>>

CallMobilityDegradation ==
    \E Efield \in EfieldInputs, mu0 \in Mu0Inputs :
        /\ call = NoCall
        /\ call' = [fn |-> "mobility_degradation", Efield |-> Efield, mu0 |-> mu0]
        /\ ret' = mobility_degradation(Efield, mu0)
        /\ UNCHANGED <<mode, sliders, output, snap>>

NextPure == CallMosfetIV \/ CallDgThreshold \/ CallMobilityDegradation

SpecPure == Init /\ [][NextPure]_vars

(***************************************************************************)
(* The claims.                                                             *)
(***************************************************************************)
IsCall(fn) == call.fn = fn

Positive(r) == r.num > 0

\* the k of a direct call of mosfet_iv (tox # 0)
CallK == RMul(call.mobility, Cox(call.tox))

\* mosfet_iv at the arguments of the call, with another drain voltage
AtVd(Vd) == mosfet_iv(call.Vg, Vd, call.tox, call.mobility, call.Vth)

\* C1: with tox > 0 and Vg < Vth, mosfet_iv returns 0 for any drain voltage
\* and any mobility (cutoff).
C1_Cutoff ==
    (IsCall("mosfet_iv") /\ Positive(call.tox) /\ RLess(call.Vg, call.Vth))
        => ret = Zero

C1_Witness ==
    /\ IsCall("mosfet_iv") /\ Positive(call.tox) /\ RLess(call.Vg, call.Vth)
    /\ Positive(call.Vd) /\ Positive(call.mobility)
    /\ ret = Zero

\* C2: with tox > 0 and Vg >= Vth, at Vd = Vg - Vth the triode expression
\* and the saturation expression have the same value, and mosfet_iv returns
\* it from the saturation branch.
C2_Continuous ==
    (/\ IsCall("mosfet_iv") /\ Positive(call.tox) /\ RLeq(call.Vth, call.Vg)
     /\ call.Vd = RSub(call.Vg, call.Vth))
        => /\ PEq(Triode(CallK, call.Vg, call.Vd, call.Vth),
                  Saturation(CallK, call.Vg, call.Vth))
           /\ ret = Saturation(CallK, call.Vg, call.Vth)

C2_Witness ==
    /\ IsCall("mosfet_iv") /\ Positive(call.tox) /\ Positive(call.mobility)
    /\ call.Vd = RSub(call.Vg, call.Vth) /\ Positive(call.Vd)
    /\ PSign(ret) > 0
    /\ PEq(ret, Triode(CallK, call.Vg, call.Vd, call.Vth))

\* C3: in CNT mode, for the indices n, m in 1..30 the sliders give, the tube is
\* reported metallic exactly when 3 divides n - m, semiconducting otherwise,
\* and the report is that of the swapped pair (m, n); n = m = 10 is metallic.
C3_Metallic ==
    mode = CntExplorer =>
        /\ sliders.n \in 1..30 /\ sliders.m \in 1..30
        /\ output.class \in {"metallic", "semiconducting"}
        /\ (output.class = "metallic")
               <=> (\E j \in -29..29 : sliders.n - sliders.m = 3 * j)
        /\ (output.class = "metallic") <=> Metallic(sliders.m, sliders.n)
        /\ (sliders.n = 10 /\ sliders.m = 10) => output.class = "metallic"

C3_Witness ==
    /\ mode = CntExplorer
    /\ sliders.n < sliders.m
    /\ (sliders.n - sliders.m) % 3 = 0
    /\ output.class = "metallic"

\* C4: no run of the page divides by zero: in MOSFET mode tox is in
\* [0.5, 5] nm, in CNT mode n >= 1, m >= 1 and the diameter is positive, and no
\* run ends in ZeroDivisionError or reports an infinite bandgap.
C4_NoDivisionByZero ==
    /\ "error" \notin DOMAIN output
    /\ mode = MosfetIV =>
           /\ Positive(Value(MosfetIV, sliders, "tox"))
           /\ RLeq(Rat(5, 10), Value(MosfetIV, sliders, "tox"))
           /\ RLeq(Value(MosfetIV, sliders, "tox"), RInt(5))
           /\ \A i \in 1..NumSamples : ~Raised(output.y[i])
    /\ mode = CntExplorer =>
           /\ sliders.n >= 1 /\ sliders.m >= 1
           /\ Positive(output.d.lo)
           /\ "inf" \notin DOMAIN output.Eg
           /\ Positive(output.Eg.lo)

C4_Witness ==
    /\ mode = MosfetIV
    /\ sliders.tox = MosfetSliders.tox.min
    /\ "y" \in DOMAIN output
    /\ PSign(output.y[NumSamples]) > 0

\* C5: over thickness in [2, 20] nm and tox in [0.5, 5] nm, dg_threshold is
\* strictly decreasing in thickness at fixed tox and strictly increasing in tox
\* at fixed thickness (the whole enclosure of one value lies beyond that of the
\* other).
C5_Monotone ==
    IsCall("dg_threshold") =>
        /\ \A t2 \in ThicknessInputs :
               RLess(call.thickness, t2) => RLess(dg_threshold(t2, call.tox).hi, ret.lo)
        /\ \A x2 \in DgToxInputs :
               RLess(call.tox, x2) => RLess(ret.hi, dg_threshold(call.thickness, x2).lo)

C5_Witness ==
    /\ IsCall("dg_threshold")
    /\ call.thickness = RInt(2) /\ call.tox = Rat(5, 10)
    /\ RLess(dg_threshold(RInt(20), call.tox).hi, ret.lo)
    /\ RLess(ret.hi, dg_threshold(call.thickness, RInt(5)).lo)

\* C6: for Efield >= 0, mobility_degradation returns mu0 / (1 + Efield / 1e6):
\* mu0 at Efield = 0, mu0 / 2 at Efield = 1e6, and for mu0 > 0 a value
\* strictly decreasing in Efield.
C6_Degradation ==
    IsCall("mobility_degradation") =>
        /\ RMul(ret, RAdd(RInt(1), RDiv(call.Efield, RInt(1000000)))) = call.mu0
        /\ call.Efield = RInt(0) => ret = call.mu0
        /\ call.Efield = RInt(1000000) => RMul(RInt(2), ret) = call.mu0
        /\ Positive(call.mu0) =>
               \A E2 \in EfieldInputs :
                   RLess(call.Efield, E2) => RLess(mobility_degradation(E2, call.mu0), ret)

C6_Witness ==
    /\ IsCall("mobility_degradation")
    /\ call.Efield = RInt(1000000) /\ Positive(call.mu0)
    /\ RMul(RInt(2), ret) = call.mu0

C9_Sweep ==
    mode = MosfetIV =>
        /\ DOMAIN output.x = 1..200 /\ DOMAIN output.y = 1..200
        /\ output.x[1] = RInt(0) /\ output.x[200] = Rat(15, 10)
        /\ \A i \in 1..199 :
               /\ RLess(output.x[i], output.x[i + 1])
               /\ RSub(output.x[i + 1], output.x[i]) = RSub(output.x[2], output.x[1])
        /\ \A i \in 1..200 :
               output.y[i] = mosfet_iv(Value(MosfetIV, sliders, "Vg"), output.x[i],
                                       Value(MosfetIV, sliders, "tox"),
                                       Value(MosfetIV, sliders, "mobility"),
                                       Value(MosfetIV, sliders, "Vth"))

C9_Witness ==
    /\ mode = MosfetIV
    /\ sliders.Vg = MosfetSliders.Vg.max /\ sliders.Vth = MosfetSliders.Vth.max
    /\ PSign(output.y[1]) = 0
    /\ PLess(output.y[100], output.y[101])
    /\ PEq(output.y[199], output.y[200])

\* the part of C10 about Vd >= 0: a current that is non-negative,
\* non-decreasing in Vd, and constant at its maximum from Vd = Vg - Vth on
C10_Curve ==
    RLeq(RInt(0), call.Vd) =>
        /\ PSign(ret) >= 0
        /\ \A Vd2 \in VdInputs :
               RLeq(call.Vd, Vd2) => PLeq(ret, AtVd(Vd2))
        /\ RLeq(RSub(call.Vg, call.Vth), call.Vd) =>
               \A Vd2 \in VdInputs :
                   /\ RLeq(call.Vd, Vd2) => PEq(AtVd(Vd2), ret)
                   /\ RLeq(RInt(0), Vd2) => PLeq(AtVd(Vd2), ret)

\* C10 as stated: for tox > 0 and mobility >= 0 the curve of C10_Curve, and a
\* negative Vd with Vg >= Vth gives a negative current.
C10_Original ==
    (IsCall("mosfet_iv") /\ Positive(call.tox) /\ call.mobility.num >= 0) =>
        /\ C10_Curve
        /\ (call.Vd.num < 0 /\ RLeq(call.Vth, call.Vg)) => PSign(ret) < 0

\* C10 as amended: for tox > 0 and mobility >= 0 the curve of C10_Curve; a
\* negative Vd with Vg >= Vth is not clamped: it gives the value of the triode
\* expression, which is negative when mobility > 0 and zero when mobility = 0.
C10_Amended ==
    (IsCall("mosfet_iv") /\ Positive(call.tox) /\ call.mobility.num >= 0) =>
        /\ C10_Curve
        /\ (call.Vd.num < 0 /\ RLeq(call.Vth, call.Vg)) =>
               /\ ret = Triode(CallK, call.Vg, call.Vd, call.Vth)
               /\ Positive(call.mobility) => PSign(ret) < 0
               /\ call.mobility.num = 0 => PSign(ret) = 0

C10_Witness ==
    /\ IsCall("mosfet_iv") /\ Positive(call.tox) /\ Positive(call.mobility)
    /\ call.Vd.num < 0 /\ RLess(call.Vth, call.Vg)
    /\ PSign(ret) < 0

====
